---- MODULE Spec2Model ----
(***************************************************************************)
(* A model of the Excel Service ID Script Generator: the record matcher    *)
(* (ExcelHandler.find_service_codes), the code normalizer                  *)
(* (ExcelHandler.clean_codes), the line formatter                          *)
(* (ExcelHandler.format_action_lines), the service aggregator              *)
(* (generate_service_files) and the interactive run of main().             *)
(*                                                                         *)
(* A Python str is a sequence of one-character strings, so that strip(),   *)
(* lower(), replace(), split() and concatenation are computed character by *)
(* character.                                                              *)
(***************************************************************************)
EXTENDS Integers, Sequences, FiniteSets, TLC

VARIABLES
    pc,                 \* position of the run (or of the function harness)
    env,                \* the file system seen by main: exists, openable, workbook
    prompts,            \* the kinds of prompt issued so far
    queried,            \* the calls of find_service_codes: <<sheet, service id, codes returned>>
    selected_sheets,    \* main: selected_sheets
    service_ids,        \* main: service_ids, as entered
    service_usernames,  \* main: the dict service_usernames (see Dict below)
    summary_table,      \* main: summary_table
    displayed,          \* number of summary_table rows printed in the summary
    confirm,            \* main: confirm, the answer stripped and lower-cased
    script_contents,    \* main: the dict script_contents, keyed by <<sheet, sid>>
    writes,             \* every file write so far, in order
    total_processed,    \* main: total_processed
    loop,               \* main: index of the next turn of the running loop
    earlier,            \* the writes of the earlier runs of main on this file system
    codes,              \* harness: the argument of clean_codes
    cleaned,            \* harness: clean_codes(codes)
    recleaned,          \* harness: clean_codes(clean_codes(codes))
    fsheet,             \* harness: the sheet given to find_service_codes
    fid,                \* harness: the service id given to find_service_codes
    found               \* harness: what find_service_codes returned

mainVars == <<env, prompts, queried, selected_sheets, service_ids,
              service_usernames, summary_table, displayed, confirm,
              script_contents, writes, total_processed, loop>>
cleanVars == <<codes, cleaned, recleaned>>
findVars == <<fsheet, fid, found>>
vars == <<pc, mainVars, cleanVars, findVars, earlier>>

----------------------------------------------------------------------------
(* Bounds of the model. *)

\* longest flattened clean_codes argument (characters plus code terminators)
MaxInput == 5

\* most rows of a sheet given to find_service_codes
MaxRows == 3

\* most sheets in a summary table given to generate_service_files
MaxTableSheets == 3

\* most sheets of the workbook main opens
MaxSheets == 2

----------------------------------------------------------------------------
(* Python str operations. *)

\* the characters str.strip() removes from both ends
Whitespace == {" ", "\t"}

Range(s) == {s[k] : k \in DOMAIN s}

LowerLetters == <<"a","b","c","d","e","f","g","h","i","j","k","l","m",
                  "n","o","p","q","r","s","t","u","v","w","x","y","z">>
UpperLetters == <<"A","B","C","D","E","F","G","H","I","J","K","L","M",
                  "N","O","P","Q","R","S","T","U","V","W","X","Y","Z">>

LowerOf == [c \in Range(UpperLetters) |->
              LowerLetters[CHOOSE k \in DOMAIN UpperLetters : UpperLetters[k] = c]]
UpperOf == [c \in Range(LowerLetters) |->
              UpperLetters[CHOOSE k \in DOMAIN LowerLetters : LowerLetters[k] = c]]

LowerChar(c) == IF c \in DOMAIN LowerOf THEN LowerOf[c] ELSE c

UpperChar(c) == IF c \in DOMAIN UpperOf THEN UpperOf[c] ELSE c

\* str.lower()
Lower(s) == [k \in 1..Len(s) |-> LowerChar(s[k])]

\* str.upper()
Upper(s) == [k \in 1..Len(s) |-> UpperChar(s[k])]

RECURSIVE LStrip(_)
LStrip(s) ==
    IF s # <<>> /\ Head(s) \in Whitespace THEN LStrip(Tail(s)) ELSE s

RECURSIVE RStrip(_)
RStrip(s) ==
    IF s # <<>> /\ s[Len(s)] \in Whitespace
    THEN RStrip(SubSeq(s, 1, Len(s) - 1))
    ELSE s

\* str.strip()
Strip(s) == RStrip(LStrip(s))

\* str.replace(ch, "")
Remove(s, ch) == SelectSeq(s, LAMBDA c : c # ch)

\* str.replace(ch, by) for a single character ch
ReplaceChar(s, ch, by) == [k \in 1..Len(s) |-> IF s[k] = ch THEN by ELSE s[k]]

\* str.startswith(p)
StartsWith(s, p) == Len(s) >= Len(p) /\ SubSeq(s, 1, Len(p)) = p

\* p in s
Contains(s, p) ==
    \E k \in 0..(Len(s) - Len(p)) : SubSeq(s, k + 1, k + Len(p)) = p

\* s.split(sep) for a single character sep
RECURSIVE SplitAcc(_, _, _)
SplitAcc(s, sep, cur) ==
    IF s = <<>> THEN <<cur>>
    ELSE IF Head(s) = sep THEN <<cur>> \o SplitAcc(Tail(s), sep, <<>>)
    ELSE SplitAcc(Tail(s), sep, Append(cur, Head(s)))

Split(s, sep) == SplitAcc(s, sep, <<>>)

----------------------------------------------------------------------------
(* ExcelHandler.clean_codes *)

\* s = str(raw).strip()
clean_strip(raw) == Strip(raw)

\* s.replace("?", "").replace(" ", "").replace("-", "")
clean_replace(s) == Remove(Remove(Remove(s, "?"), " "), "-")

\* one turn of the loop: the entries appended for raw (none or one)
clean_one_nohyphen(raw) ==
    LET s == clean_strip(raw) IN
    IF s = <<>> THEN <<>>
    ELSE LET t == Remove(Remove(s, "?"), " ") IN
         IF t # <<>> THEN <<t>> ELSE <<>>

clean_one(raw) ==
    LET s == clean_strip(raw) IN
    IF s = <<>> THEN <<>>
    ELSE LET t == clean_replace(s) IN
         IF t # <<>> THEN <<t>> ELSE <<>>

RECURSIVE clean_codes(_)
clean_codes(cs) ==
    IF cs = <<>> THEN <<>>
    ELSE clean_one(Head(cs)) \o clean_codes(Tail(cs))

----------------------------------------------------------------------------
(* The workbook.  A sheet is [name, readable, columns, rows]: columns are    *)
(* the header cells as written in the workbook, a row is a sequence of cells *)
(* (one per column), a cell is a str or NaN (an empty cell, as pandas reads  *)
(* it).  readable = FALSE is a sheet that ExcelFile.parse fails on.  The     *)
(* headers of a sheet stay pairwise distinct after normalisation, so that    *)
(* df[c] is one column.                                                      *)

NaN == <<"<NaN>">>

\* str(v) of a cell
Str(v) == IF v = NaN THEN <<"n","a","n">> ELSE v

\* pd.notna(v)
notna(v) == v # NaN

S_service == <<"s","e","r","v","i","c","e">>
S_id == <<"i","d">>
S_sub == <<"s","u","b">>
S_identifier == <<"i","d","e","n","t","i","f","i","e","r">>
S_service_ == <<"s","e","r","v","i","c","e","_">>

\* self._excel.parse(sheet_name): raises on an unreadable sheet
parse(sheet) == [exc |-> ~sheet.readable, df |-> sheet]

\* df.columns = [str(c).lower().strip() for c in df.columns]
normalize_columns(cols) == [k \in 1..Len(cols) |-> Strip(Lower(cols[k]))]

\* "service" in c and "id" in c
is_service_id(c) == Contains(c, S_service) /\ Contains(c, S_id)

\* "sub" in c and "identifier" in c
is_sub_identifier(c) == Contains(c, S_sub) /\ Contains(c, S_identifier)

\* next((c for c in df.columns if "service" in c and "id" in c), None): the
\* index of the first such column, 0 for None ("if not svc_col" also rejects
\* an empty name, which cannot match)
svc_col(cols) ==
    IF \E k \in 1..Len(cols) : is_service_id(cols[k])
    THEN CHOOSE k \in 1..Len(cols) :
            is_service_id(cols[k]) /\ \A j \in 1..(k - 1) : ~is_service_id(cols[j])
    ELSE 0

\* next((c for c in df.columns if "sub" in c and "identifier" in c), None)
sub_col(cols) ==
    IF \E k \in 1..Len(cols) : is_sub_identifier(cols[k])
    THEN CHOOSE k \in 1..Len(cols) :
            is_sub_identifier(cols[k])
            /\ \A j \in 1..(k - 1) : ~is_sub_identifier(cols[j])
    ELSE 0

\* the canonical key of a service id
normalize_service_nolower(service_id) ==
    LET n == Strip(service_id) IN
    IF StartsWith(n, S_service_) THEN n ELSE S_service_ \o n

normalize_service(service_id) ==
    LET n == Strip(service_id) IN
    IF StartsWith(Lower(n), S_service_) THEN n ELSE S_service_ \o n

\* one entry of the mask: does the identifier cell select its row
mask(cell, normalized_service) ==
    Lower(Strip(Str(cell))) = Lower(normalized_service)

\* filtered = df.loc[mask]
filtered_rows(rows, col, normalized_service) ==
    SelectSeq(rows, LAMBDA row : mask(row[col], normalized_service))

\* [str(v).strip() for v in filtered[sub_col] if pd.notna(v) and str(v).strip()]
RECURSIVE extract_codes(_, _)
extract_codes(rows, col) ==
    IF rows = <<>> THEN <<>>
    ELSE LET v == Head(rows)[col] IN
         (IF notna(v) /\ Strip(Str(v)) # <<>> THEN <<Strip(Str(v))>> ELSE <<>>)
         \o extract_codes(Tail(rows), col)

\* list(dict.fromkeys(codes))
unique_keep_all(cs) == cs

RECURSIVE unique_acc(_, _)
unique_acc(cs, acc) ==
    IF cs = <<>> THEN acc
    ELSE unique_acc(Tail(cs),
                    IF Head(cs) \in Range(acc) THEN acc ELSE Append(acc, Head(cs)))

unique(cs) == unique_acc(cs, <<>>)

Return(v) == [exc |-> FALSE, value |-> v]
Raise == [exc |-> TRUE, value |-> <<>>]

\* except Exception: log a warning and return []
parse_failed_reraise(sheet) == Raise

parse_failed(sheet) == Return(<<>>)

find_service_codes(sheet, service_id) ==
    LET p == parse(sheet) IN
    IF p.exc THEN parse_failed(sheet)
    ELSE
    LET cols == normalize_columns(p.df.columns)
        sc == svc_col(cols)
    IN
    IF sc = 0 THEN Return(<<>>)
    ELSE
    LET filtered == filtered_rows(p.df.rows, sc, normalize_service(service_id))
        uc == sub_col(cols)
    IN
    IF filtered = <<>> THEN Return(<<>>)
    ELSE IF uc = 0 THEN Return(<<>>)
    ELSE Return(unique(extract_codes(filtered, uc)))

----------------------------------------------------------------------------
(* A Python dict: the sequence of its <<key, value>> items in insertion      *)
(* order.                                                                    *)

DictHas(d, k) == \E i \in 1..Len(d) : d[i][1] = k

\* d[k]
DictGet(d, k) == d[CHOOSE i \in 1..Len(d) : d[i][1] = k][2]

\* d.get(k, default)
DictGetOr(d, k, default) == IF DictHas(d, k) THEN DictGet(d, k) ELSE default

\* d[k] = v: a new key goes last, a present key keeps its place
DictSet(d, k, v) ==
    IF DictHas(d, k)
    THEN [i \in 1..Len(d) |-> IF d[i][1] = k THEN <<k, v>> ELSE d[i]]
    ELSE Append(d, <<k, v>>)

----------------------------------------------------------------------------
(* ExcelHandler.format_action_lines.  The literal pieces of a template are   *)
(* single tokens of the character sequence.                                  *)

T_line_open == "{ \"?.?."
T_line_mid == "\" }  : Actions SET_DEST_LA(\""
T_line_close == "\"),SET_ESME_GROUP(SAG_GROUP_1, A_ADDR)"

\* username.replace('"', '').replace("'", "")
sanitize_username(username) == Remove(Remove(username, "\""), "'")

format_line(code, username) ==
    <<T_line_open>> \o code \o <<T_line_mid>> \o username \o <<T_line_close>>

format_action_lines(cs, username) ==
    [k \in 1..Len(cs) |-> format_line(cs[k], sanitize_username(username))]

\* "\n".join(lines)
RECURSIVE JoinLines(_)
JoinLines(lines) ==
    IF lines = <<>> THEN <<>>
    ELSE IF Len(lines) = 1 THEN lines[1]
    ELSE lines[1] \o <<"\n">> \o JoinLines(Tail(lines))

----------------------------------------------------------------------------
(* Files.  A write is [kind, dir, name, content, sheet, sid]: content is the *)
(* sequence of the chunks written to the file, sheet and sid say for which   *)
(* pair or service the program reports the write.                            *)

T_script_txt == "_script.txt"
T_summary_txt == "_summary.txt"
T_script_nl == "_script\n"
T_oa == "OA: \n\n"
T_separator == "\n*****************************************\n\n"

\* the width of the destination field in the second header line
FieldWidth == 12

OutputDir == <<"o","u","t","p","u","t">>

\* sheet.replace(" ", "_")
safe_sheet(sheet) == ReplaceChar(sheet, " ", "_")

\* FileWriter.write_text_file(path, lines): a relative path is anchored in
\* the writer's output directory
write_text_file(dir, name, lines, sheet, sid) ==
    [kind |-> "script",
     dir |-> <<OutputDir>> \o dir,
     name |-> name,
     content |-> IF lines # <<>> THEN <<JoinLines(lines) \o <<"\n">>>> ELSE << <<>> >>,
     sheet |-> sheet,
     sid |-> sid]

\* path.write_text(content) and open(file_path, "w"): the file at the path
\* holds what was written last
apply_write_append(disk, w) ==
    DictSet(disk, <<w.dir, w.name>>, DictGetOr(disk, <<w.dir, w.name>>, <<>>) \o w.content)
apply_write(disk, w) == DictSet(disk, <<w.dir, w.name>>, w.content)

\* the files on disk after the writes ws, in order
RECURSIVE disk_after(_, _)
disk_after(disk, ws) ==
    IF ws = <<>> THEN disk ELSE disk_after(apply_write(disk, Head(ws)), Tail(ws))

----------------------------------------------------------------------------
(* generate_service_files *)

\* a row of summary_table: (sheet, service_id, username, count)
Row(sheet, sid, username, count) ==
    [sheet |-> sheet, sid |-> sid, username |-> username, count |-> count]

\* the rows that take part in the grouping
grouped_all(row) == TRUE

grouped(row) == row.count # 0

\* service_dict.setdefault(sid, []).append(sheet), over summary_table
RECURSIVE group_sheets(_, _)
group_sheets(table, service_dict) ==
    IF table = <<>> THEN service_dict
    ELSE LET row == Head(table) IN
         group_sheets(Tail(table),
            IF grouped(row)
            THEN DictSet(service_dict, row.sid,
                         Append(DictGetOr(service_dict, row.sid, <<>>), row.sheet))
            ELSE service_dict)

\* f"{username:<12}"
RECURSIVE PadRight(_, _)
PadRight(s, width) == IF Len(s) >= width THEN s ELSE PadRight(Append(s, " "), width)

\* is a separator written after the section of index i (from 1) of n
separator_after_always(i, n) == TRUE

separator_after(i, n) == i < n

\* script_contents.get((sheet, sid), [])
cached_lines_by_file_name(contents, sheet, sid) ==
    DictGetOr(contents, <<safe_sheet(sheet), sid>>, <<>>)
cached_lines(contents, sheet, sid) == DictGetOr(contents, <<sheet, sid>>, <<>>)

\* the chunks of the sections i..Len(sheets)
RECURSIVE section_chunks(_, _, _, _)
section_chunks(sheets, i, sid, contents) ==
    IF i > Len(sheets) THEN <<>>
    ELSE LET content == cached_lines(contents, sheets[i], sid) IN
         << safe_sheet(sheets[i]) \o <<T_script_nl>> >>
         \o (IF content # <<>> THEN << JoinLines(content) \o <<"\n">> >> ELSE <<>>)
         \o (IF separator_after(i, Len(sheets)) THEN << <<T_separator>> >> ELSE <<>>)
         \o section_chunks(sheets, i + 1, sid, contents)

summary_file(sid, sheets, usernames, contents) ==
    LET username == DictGet(usernames, sid) IN
    [kind |-> "summary",
     dir |-> <<OutputDir>>,
     name |-> username \o <<"_">> \o sid \o <<T_summary_txt>>,
     content |-> << Upper(username) \o <<"\n", "\n">>,
                    PadRight(username, FieldWidth) \o <<" ">> \o S_service_
                        \o sid \o <<"\n", "\n">>,
                    <<T_oa>> >>
                 \o section_chunks(sheets, 1, sid, contents),
     sheet |-> <<>>,
     sid |-> sid]

\* the files written, in order: one per key of service_dict
generate_service_files(table, usernames, contents) ==
    LET service_dict == group_sheets(table, <<>>) IN
    [k \in 1..Len(service_dict) |->
        summary_file(service_dict[k][1], service_dict[k][2], usernames, contents)]

----------------------------------------------------------------------------
(* main: the helpers. *)

Digits == {"0","1","2","3","4","5","6","7","8","9"}
DigitValue == [c \in Digits |->
                 CHOOSE v \in 0..9 : <<"0","1","2","3","4","5","6","7","8","9">>[v + 1] = c]

\* str.isdigit()
isdigit(s) == s # <<>> /\ \A k \in 1..Len(s) : s[k] \in Digits

\* int(s) of a string of digits
RECURSIVE int(_)
int(s) == IF s = <<>> THEN 0 ELSE 10 * int(SubSeq(s, 1, Len(s) - 1)) + DigitValue[s[Len(s)]]

\* [p.strip() for p in raw.split(",") if p.strip()]
split_parts(raw) ==
    LET parts == Split(raw, ",") IN
    SelectSeq([k \in 1..Len(parts) |-> Strip(parts[k])], LAMBDA q : q # <<>>)

\* the loop of parse_indices over parts: the indices, or the exception
RECURSIVE parse_parts(_, _, _)
parse_parts(parts, max_index, indices) ==
    IF parts = <<>> THEN [exc |-> "", value |-> indices]
    ELSE IF ~isdigit(Head(parts)) THEN [exc |-> "ValueError", value |-> <<>>]
    ELSE LET idx == int(Head(parts)) - 1 IN
         IF idx < 0 \/ idx >= max_index THEN [exc |-> "IndexError", value |-> <<>>]
         ELSE parse_parts(Tail(parts), max_index, Append(indices, idx))

\* parse_indices(raw, max_index): zero-based indices
parse_indices(raw, max_index) ==
    LET r == Lower(Strip(raw)) IN
    IF r = <<"a","l","l">>
    THEN [exc |-> "", value |-> [k \in 1..max_index |-> k - 1]]
    ELSE parse_parts(split_parts(r), max_index, <<>>)

\* input_service_ids(), given the line typed
input_service_ids(line) == split_parts(Strip(line))

\* ExcelHandler.__init__: raises when pd.ExcelFile cannot open the file
ExcelHandler_init_forgiving(e) ==
    [exc |-> FALSE, sheets |-> [k \in 1..Len(e.workbook) |-> e.workbook[k].name]]

ExcelHandler_init(e) ==
    IF e.openable
    THEN [exc |-> FALSE, sheets |-> [k \in 1..Len(e.workbook) |-> e.workbook[k].name]]
    ELSE [exc |-> TRUE, sheets |-> <<>>]

\* the sheet self._excel.parse(sheet_name) reads
SheetNamed(name) ==
    env.workbook[CHOOSE k \in 1..Len(env.workbook) : env.workbook[k].name = name]

\* confirm = input(...).strip().lower()
normalize_answer(answer) == Lower(Strip(answer))

\* if confirm != "y": return
proceeds_unless_no(c) == c # <<"n">>

proceeds(c) == c = <<"y">>

\* is the row of summary_table skipped by the generation loop
skipped_never(row) == FALSE

skipped(row) == row.count = 0

\* out_name = f"{safe_sheet}_{sid}_script.txt"
out_name(sheet, sid) == safe_sheet(sheet) \o <<"_">> \o sid \o <<T_script_txt>>

----------------------------------------------------------------------------
(* The clean_codes harness: every sequence of raw codes whose flattened    *)
(* form (each code followed by a terminator) has at most MaxInput symbols. *)

CodeAlphabet == {" ", "\t", "?", "-", "*", "1"}
Terminator == "|"

FlatInputs ==
    UNION {[1..n -> CodeAlphabet \cup {Terminator}] : n \in 0..MaxInput}

\* the codes of a flattened input; an unterminated empty tail is no code
CodesOf(flat) ==
    LET parts == Split(flat, Terminator) IN
    IF parts[Len(parts)] = <<>> THEN SubSeq(parts, 1, Len(parts) - 1) ELSE parts

Idle == <<>>

MainIdle ==
    /\ env = [exists |-> FALSE, openable |-> FALSE, workbook |-> <<>>]
    /\ prompts = {}
    /\ queried = <<>>
    /\ selected_sheets = <<>>
    /\ service_ids = <<>>
    /\ service_usernames = <<>>
    /\ summary_table = <<>>
    /\ displayed = 0
    /\ confirm = <<>>
    /\ script_contents = <<>>
    /\ writes = <<>>
    /\ total_processed = 0
    /\ loop = 0
    /\ earlier = <<>>

CleanIdle == codes = Idle /\ cleaned = Idle /\ recleaned = Idle
FindIdle == fsheet = Idle /\ fid = Idle /\ found = Idle

InitClean ==
    /\ pc = "clean"
    /\ codes \in {CodesOf(f) : f \in FlatInputs}
    /\ cleaned = Idle
    /\ recleaned = Idle
    /\ MainIdle
    /\ FindIdle

Clean ==
    /\ pc = "clean"
    /\ cleaned' = clean_codes(codes)
    /\ pc' = "cleaned"
    /\ UNCHANGED <<codes, recleaned, mainVars, findVars, earlier>>

CleanAgain ==
    /\ pc = "cleaned"
    /\ recleaned' = clean_codes(cleaned)
    /\ pc' = "recleaned"
    /\ UNCHANGED <<codes, cleaned, mainVars, findVars, earlier>>

NextClean == Clean \/ CleanAgain

SpecClean == InitClean /\ [][NextClean]_vars

----------------------------------------------------------------------------
(* The find_service_codes harness: sheets of at most MaxRows rows drawn    *)
(* from RowKinds, laid out in every way of Layouts, readable or not.       *)

H_service_id == <<"S","e","r","v","i","c","e","_","I","D"," ">>
H_sub_identifier == <<"S","u","b","-","I","d","e","n","t","i","f","i","e","r">>
H_name == <<"N","a","m","e">>

\* the (identifier cell, code cell, name cell) of a row
RowKinds == {
    <<S_service_ \o <<"1">>, <<"7">>, <<"a">>>>,
    <<<<" ","S","e","r","v","i","c","e","_","1">>, <<" ","7">>, <<"b">>>>,
    <<<<"S","E","R","V","I","C","E","_","1","\t">>, <<"8"," ">>, NaN>>,
    <<S_service_ \o <<"1">>, NaN, <<"d">>>>,
    <<S_service_ \o <<"1">>, <<" ">>, <<"e">>>>,
    <<S_service_ \o <<"1","2">>, <<"9">>, <<"f">>>>,
    <<<<"x">> \o S_service_ \o <<"1">>, <<"6">>, <<"h">>>>,
    <<S_service_, <<"5">>, <<"i">>>>,
    <<<<"1">>, <<"4">>, <<"j">>>>,
    <<NaN, <<"3">>, <<"k">>>> }

\* the columns of a layout, as indices into a row kind (1 id, 2 code, 3 name)
Layouts == { <<3, 2, 1>>, <<1, 3>>, <<2, 3>> }

Header(c) == CASE c = 1 -> H_service_id [] c = 2 -> H_sub_identifier [] OTHER -> H_name

MakeSheet(name, readable, layout, kinds) ==
    [name |-> name,
     readable |-> readable,
     columns |-> [k \in 1..Len(layout) |-> Header(layout[k])],
     rows |-> [r \in 1..Len(kinds) |-> [k \in 1..Len(layout) |-> kinds[r][layout[k]]]]]

HarnessSheets ==
    {MakeSheet(<<"R">>, TRUE, l, ks) :
        l \in Layouts, ks \in UNION {[1..n -> RowKinds] : n \in 0..MaxRows}}
    \cup {MakeSheet(<<"R">>, FALSE, <<1, 2>>, <<>>)}

\* bare service ids
HarnessIds == { <<"1">>, <<"1","2">>, <<>> }

InitFind ==
    /\ pc = "find"
    /\ fsheet \in HarnessSheets
    /\ fid \in HarnessIds
    /\ found = Idle
    /\ MainIdle
    /\ CleanIdle

Find ==
    /\ pc = "find"
    /\ found' = find_service_codes(fsheet, fid)
    /\ pc' = "found"
    /\ UNCHANGED <<fsheet, fid, mainVars, cleanVars, earlier>>

NextFind == Find

SpecFind == InitFind /\ [][NextFind]_vars

----------------------------------------------------------------------------
(* The generate_service_files harness: summary tables over at most         *)
(* MaxTableSheets sheets (a sheet may be selected twice) and one or two    *)
(* services; a pair has count 0, or two cached lines, or a count but no    *)
(* cached lines.                                                           *)

TableSheetNames == { <<"A">>, <<"B", " ", "C">> }
TableSids == { << <<"1">> >>, << <<"1">>, <<"2">> >> }
TableUsernames == << << <<"1">>, <<"a", "b">> >>, << <<"2">>, <<"c", "'", "d">> >> >>
PairKinds == {"zero", "lines", "nocache"}

TablePair(sheets, sids, k) ==
    [sheet |-> sheets[((k - 1) \div Len(sids)) + 1],
     sid |-> sids[((k - 1) % Len(sids)) + 1]]

HarnessTable(sheets, sids, kinds) ==
    [k \in 1..Len(kinds) |->
        LET q == TablePair(sheets, sids, k) IN
        Row(q.sheet, q.sid, DictGet(TableUsernames, q.sid),
            CASE kinds[k] = "zero" -> 0 [] kinds[k] = "lines" -> 2 [] OTHER -> 1)]

RECURSIVE HarnessContents(_, _, _, _)
HarnessContents(sheets, sids, kinds, k) ==
    IF k > Len(kinds) THEN <<>>
    ELSE LET q == TablePair(sheets, sids, k)
             rest == HarnessContents(sheets, sids, kinds, k + 1)
         IN
         IF kinds[k] = "lines"
         THEN DictSet(rest, <<q.sheet, q.sid>>,
                      format_action_lines(<< <<"7">>, <<"8">> >>,
                                          DictGet(TableUsernames, q.sid)))
         ELSE rest

InitSummary ==
    /\ pc = "summary"
    /\ \E sheets \in UNION {[1..n -> TableSheetNames] : n \in 0..MaxTableSheets} :
       \E sids \in TableSids :
       \E kinds \in [1..(Len(sheets) * Len(sids)) -> PairKinds] :
          /\ summary_table = HarnessTable(sheets, sids, kinds)
          /\ script_contents = HarnessContents(sheets, sids, kinds, 1)
    /\ service_usernames = TableUsernames
    /\ env = [exists |-> FALSE, openable |-> FALSE, workbook |-> <<>>]
    /\ prompts = {}
    /\ queried = <<>>
    /\ selected_sheets = <<>>
    /\ service_ids = <<>>
    /\ displayed = 0
    /\ confirm = <<>>
    /\ writes = <<>>
    /\ total_processed = 0
    /\ loop = 0
    /\ earlier = <<>>
    /\ CleanIdle
    /\ FindIdle

Summarise ==
    /\ pc = "summary"
    /\ writes' = writes \o generate_service_files(summary_table, service_usernames,
                                                  script_contents)
    /\ pc' = "summarised"
    /\ UNCHANGED <<env, prompts, queried, selected_sheets, service_ids,
                   service_usernames, summary_table, displayed, confirm,
                   script_contents, total_processed, loop, cleanVars, findVars, earlier>>

NextSummary == Summarise

SpecSummary == InitSummary /\ [][NextSummary]_vars

----------------------------------------------------------------------------
(* main: the run.  The file system holds a workbook of at most MaxSheets   *)
(* sheets out of MainSheets, which may be missing or fail to open; the     *)
(* user types one of Selections, IdInputs, UsernameInputs and Answers at   *)
(* each prompt.                                                            *)

MainColumns == <<H_service_id, H_sub_identifier>>
S_1 == S_service_ \o <<"1">>
S_2 == S_service_ \o <<"2">>

MainSheets == {
    [name |-> <<"R", " ", "1">>, readable |-> TRUE, columns |-> MainColumns,
     rows |-> << <<<<"S","e","r","v","i","c","e","_","1">>, <<"2","7","-","8","?","1">>>>,
                 <<S_1, <<"?">>>>,
                 <<S_2, <<"5">>>> >>],
    [name |-> <<"B">>, readable |-> TRUE, columns |-> MainColumns,
     rows |-> << <<S_1, <<"7">>>>, <<S_1, <<" ", "7">>>>, <<S_2, <<"?">>>> >>],
    [name |-> <<"C">>, readable |-> FALSE, columns |-> MainColumns,
     rows |-> << <<S_1, <<"7">>>> >>],
    [name |-> <<"D">>, readable |-> TRUE, columns |-> <<H_service_id, H_name>>,
     rows |-> << <<S_1, <<"7">>>> >>],
    [name |-> <<"E">>, readable |-> TRUE, columns |-> <<H_name, H_sub_identifier>>,
     rows |-> << <<S_1, <<"7">>>> >>] }

\* workbooks: sheet names are unique within a workbook
Workbooks ==
    {wb \in UNION {[1..n -> MainSheets] : n \in 0..MaxSheets} :
        \A i, j \in 1..Len(wb) : i # j => wb[i] # wb[j]}

Environments ==
    {[exists |-> FALSE, openable |-> FALSE, workbook |-> <<>>]}
    \cup {[exists |-> TRUE, openable |-> o, workbook |-> wb] :
            o \in BOOLEAN, wb \in Workbooks}

Selections == { <<"a","l","l">>, <<" ","A","L","L">>, <<"1">>, <<"2",","," ","1">>,
                <<"1",",","1">>, <<"x">>, <<"0">>, <<"4">>, <<>> }
IdInputs == { <<"1">>, <<"1",","," ","2">>, <<"9",",","1">>, <<" ",",">>,
              <<"S","e","r","v","i","c","e","_","1">>,
              <<"1",",","S","e","r","v","i","c","e","_","1">> }
UsernameInputs == { <<"a","b">>, <<" ","c","'","d">>, <<" ">> }
Answers == { <<"y">>, <<" ","Y">>, <<"n">>, <<"y","e","s">>, <<>> }

\* handler.sheet_names()
sheet_names == ExcelHandler_init(env).sheets

Init ==
    /\ pc = "start"
    /\ env \in Environments
    /\ prompts = {}
    /\ queried = <<>>
    /\ selected_sheets = <<>>
    /\ service_ids = <<>>
    /\ service_usernames = <<>>
    /\ summary_table = <<>>
    /\ displayed = 0
    /\ confirm = <<>>
    /\ script_contents = <<>>
    /\ writes = <<>>
    /\ total_processed = 0
    /\ loop = 0
    /\ earlier = <<>>
    /\ CleanIdle
    /\ FindIdle

\* Step 1: the path prompt and the existence check
AskPath ==
    /\ pc = "start"
    /\ prompts' = prompts \cup {"path"}
    /\ pc' = IF env.exists THEN "open" ELSE "returned"
    /\ UNCHANGED <<env, queried, selected_sheets, service_ids, service_usernames,
                   summary_table, displayed, confirm, script_contents, writes,
                   total_processed, loop, cleanVars, findVars, earlier>>

\* Steps 2 and 3: ExcelHandler(...), FileWriter(...), sheet_names()
OpenWorkbook ==
    /\ pc = "open"
    /\ LET handler == ExcelHandler_init(env) IN
       pc' = IF handler.exc THEN "crashed"
             ELSE IF handler.sheets = <<>> THEN "returned"
             ELSE "select"
    /\ UNCHANGED <<mainVars, cleanVars, findVars, earlier>>

\* Step 4: one turn of the selection loop
SelectSheets ==
    /\ pc = "select"
    /\ \E selection \in Selections :
          LET r == parse_indices(Strip(selection), Len(sheet_names)) IN
          /\ prompts' = prompts \cup {"sheets"}
          /\ IF r.exc = ""
             THEN /\ selected_sheets' =
                        [k \in 1..Len(r.value) |-> sheet_names[r.value[k] + 1]]
                  /\ pc' = "ids"
             ELSE /\ selected_sheets' = selected_sheets
                  /\ pc' = "select"
    /\ UNCHANGED <<env, queried, service_ids, service_usernames, summary_table,
                   displayed, confirm, script_contents, writes, total_processed,
                   loop, cleanVars, findVars, earlier>>

\* Step 5: input_service_ids()
InputServiceIds ==
    /\ pc = "ids"
    /\ \E line \in IdInputs :
          /\ prompts' = prompts \cup {"ids"}
          /\ service_ids' = input_service_ids(line)
          /\ pc' = IF service_ids' = <<>> THEN "returned" ELSE "usernames"
    /\ loop' = 1
    /\ UNCHANGED <<env, queried, selected_sheets, service_usernames, summary_table,
                   displayed, confirm, script_contents, writes, total_processed,
                   cleanVars, findVars, earlier>>

\* Step 6: one username prompt for service_ids[loop]; an empty answer is
\* asked again
InputUsername ==
    /\ pc = "usernames"
    /\ \E line \in UsernameInputs :
          LET username == Strip(line) IN
          /\ prompts' = prompts \cup {"username"}
          /\ IF username = <<>>
             THEN UNCHANGED <<service_usernames, loop, pc>>
             ELSE /\ service_usernames' =
                        DictSet(service_usernames, service_ids[loop], username)
                  /\ loop' = IF loop = Len(service_ids) THEN 1 ELSE loop + 1
                  /\ pc' = IF loop = Len(service_ids) THEN "scan" ELSE "usernames"
    /\ UNCHANGED <<env, queried, selected_sheets, service_ids, summary_table,
                   displayed, confirm, script_contents, writes, total_processed,
                   cleanVars, findVars, earlier>>

\* the pair of turn k of "for sheet in selected_sheets: for sid, username in
\* service_usernames.items()"
ScanPairs == Len(selected_sheets) * Len(service_usernames)
ScanSheet(k) == selected_sheets[((k - 1) \div Len(service_usernames)) + 1]
ScanItem(k) == service_usernames[((k - 1) % Len(service_usernames)) + 1]

\* Step 7: one turn of the scan
ScanPair ==
    /\ pc = "scan"
    /\ loop <= ScanPairs
    /\ LET sheet == ScanSheet(loop)
           sid == ScanItem(loop)[1]
           username == ScanItem(loop)[2]
           r == find_service_codes(SheetNamed(sheet), sid)
       IN
       /\ queried' = Append(queried, <<sheet, sid, r.value>>)
       /\ IF r.exc
          THEN /\ pc' = "crashed"
               /\ UNCHANGED <<summary_table, loop>>
          ELSE /\ summary_table' =
                     Append(summary_table, Row(sheet, sid, username, Len(r.value)))
               /\ loop' = loop + 1
               /\ pc' = "scan"
    /\ UNCHANGED <<env, prompts, selected_sheets, service_ids, service_usernames,
                   displayed, confirm, script_contents, writes, total_processed,
                   cleanVars, findVars, earlier>>

\* Step 7, after the scan: the summary of results is printed
DisplaySummary ==
    /\ pc = "scan"
    /\ loop > ScanPairs
    /\ displayed' = Len(summary_table)
    /\ pc' = "confirm"
    /\ UNCHANGED <<env, prompts, queried, selected_sheets, service_ids,
                   service_usernames, summary_table, confirm, script_contents,
                   writes, total_processed, loop, cleanVars, findVars, earlier>>

\* Step 8: the confirmation prompt
Confirm ==
    /\ pc = "confirm"
    /\ \E answer \in Answers :
          /\ prompts' = prompts \cup {"confirm"}
          /\ confirm' = normalize_answer(answer)
          /\ pc' = IF proceeds(confirm') THEN "generate" ELSE "returned"
    /\ loop' = 1
    /\ UNCHANGED <<env, queried, selected_sheets, service_ids, service_usernames,
                   summary_table, displayed, script_contents, writes,
                   total_processed, cleanVars, findVars, earlier>>

\* Step 9: one turn of the generation loop
GenerateScript ==
    /\ pc = "generate"
    /\ loop <= Len(summary_table)
    /\ LET row == summary_table[loop]
           r == find_service_codes(SheetNamed(row.sheet), row.sid)
           action_lines == format_action_lines(clean_codes(r.value), row.username)
       IN
       IF skipped(row)
       THEN /\ loop' = loop + 1
            /\ UNCHANGED <<pc, queried, script_contents, writes, total_processed>>
       ELSE /\ queried' = Append(queried, <<row.sheet, row.sid, r.value>>)
            /\ IF r.exc
               THEN /\ pc' = "crashed"
                    /\ UNCHANGED <<script_contents, writes, total_processed, loop>>
               ELSE /\ writes' = Append(writes,
                           write_text_file(<<OutputDir>>, out_name(row.sheet, row.sid),
                                           action_lines, row.sheet, row.sid))
                    /\ script_contents' =
                           DictSet(script_contents, <<row.sheet, row.sid>>, action_lines)
                    /\ total_processed' = total_processed + Len(action_lines)
                    /\ loop' = loop + 1
                    /\ pc' = "generate"
    /\ UNCHANGED <<env, prompts, selected_sheets, service_ids, service_usernames,
                   summary_table, displayed, confirm, cleanVars, findVars, earlier>>

\* Steps 10 and 11: generate_service_files and the closing message
GenerateServiceFiles ==
    /\ pc = "generate"
    /\ loop > Len(summary_table)
    /\ writes' = writes \o generate_service_files(summary_table, service_usernames,
                                                  script_contents)
    /\ pc' = "finished"
    /\ UNCHANGED <<env, prompts, queried, selected_sheets, service_ids,
                   service_usernames, summary_table, displayed, confirm,
                   script_contents, total_processed, loop, cleanVars, findVars, earlier>>

Next ==
    \/ AskPath
    \/ OpenWorkbook
    \/ SelectSheets
    \/ InputServiceIds
    \/ InputUsername
    \/ ScanPair
    \/ DisplaySummary
    \/ Confirm
    \/ GenerateScript
    \/ GenerateServiceFiles

Spec == Init /\ [][Next]_vars

----------------------------------------------------------------------------
(* main, run twice.  After a confirmed run the program is started again on *)
(* the same workbook and the user gives the same sheets, service ids and   *)
(* destinations: the second run starts its scan with what the first one    *)
(* wrote still on disk.  The workbooks hold readable sheets only; two of   *)
(* the sheet names differ in a space and an underscore.                    *)

RerunSheets == {
    [name |-> <<"R", " ", "1">>, readable |-> TRUE, columns |-> MainColumns,
     rows |-> << <<S_1, <<"2","7","-","8","?","1">>>>, <<S_2, <<"5">>>> >>],
    [name |-> <<"R", "_", "1">>, readable |-> TRUE, columns |-> MainColumns,
     rows |-> << <<S_1, <<"9">>>>, <<S_1, <<"?">>>> >>],
    [name |-> <<"B">>, readable |-> TRUE, columns |-> MainColumns,
     rows |-> << <<S_1, <<"7">>>>, <<S_2, <<"?">>>> >>] }

RerunWorkbooks ==
    {wb \in UNION {[1..n -> RerunSheets] : n \in 1..MaxSheets} :
        \A i, j \in 1..Len(wb) : i # j => wb[i] # wb[j]}

InitRerun ==
    /\ pc = "start"
    /\ \E wb \in RerunWorkbooks :
          env = [exists |-> TRUE, openable |-> TRUE, workbook |-> wb]
    /\ prompts = {}
    /\ queried = <<>>
    /\ selected_sheets = <<>>
    /\ service_ids = <<>>
    /\ service_usernames = <<>>
    /\ summary_table = <<>>
    /\ displayed = 0
    /\ confirm = <<>>
    /\ script_contents = <<>>
    /\ writes = <<>>
    /\ total_processed = 0
    /\ loop = 0
    /\ earlier = <<>>
    /\ CleanIdle
    /\ FindIdle

\* main is started a second time and reaches Step 7 with the same workbook,
\* selected_sheets and service_usernames
RunAgain ==
    /\ pc = "finished"
    /\ earlier = <<>>
    /\ earlier' = Append(earlier, writes)
    /\ writes' = <<>>
    /\ summary_table' = <<>>
    /\ displayed' = 0
    /\ confirm' = <<>>
    /\ script_contents' = <<>>
    /\ total_processed' = 0
    /\ loop' = 1
    /\ pc' = "scan"
    /\ UNCHANGED <<env, prompts, queried, selected_sheets, service_ids,
                   service_usernames, cleanVars, findVars>>

NextRerun ==
    \/ Next
    \/ RunAgain

SpecRerun == InitRerun /\ [][NextRerun]_vars

----------------------------------------------------------------------------
(* Claims on clean_codes. *)

Forbidden == {"?", "-", " "}

\* C1: every entry of clean_codes(codes) is a non-empty string that holds
\* no '?', no '-' and no space character.
C1_CleanEntries ==
    pc \in {"cleaned", "recleaned"} =>
        \A k \in 1..Len(cleaned) :
            /\ cleaned[k] # <<>>
            /\ Range(cleaned[k]) \cap Forbidden = {}

\* a raw code holding two of the three characters and a kept one was
\* cleaned, and another raw code of the same argument was dropped as empty
C1_Witness ==
    /\ pc = "cleaned"
    /\ \E k \in 1..Len(codes) : Cardinality(Range(codes[k]) \cap Forbidden) >= 2
    /\ Len(cleaned) >= 1
    /\ Len(cleaned) < Len(codes)

\* C2: clean_codes is idempotent: clean_codes(clean_codes(x)) = clean_codes(x)
\* for every sequence of raw codes x.
C2_Idempotent == pc = "recleaned" => recleaned = cleaned

----------------------------------------------------------------------------
(* Claims on find_service_codes. *)

IdColumn(sheet) == svc_col(normalize_columns(sheet.columns))
CodeColumn(sheet) == sub_col(normalize_columns(sheet.columns))

\* the trimmed code of row r
TrimmedCode(sheet, r) == Strip(Str(sheet.rows[r][CodeColumn(sheet)]))

\* the row's trimmed, lower-cased identifier cell is the key in full
RowHasKey(sheet, r, key) ==
    Lower(Strip(Str(sheet.rows[r][IdColumn(sheet)]))) = key

\* the rows matching a key that hold a trimmed non-empty code
KeyCodeRows(sheet, key) ==
    IF sheet.readable /\ IdColumn(sheet) # 0 /\ CodeColumn(sheet) # 0
    THEN {r \in 1..Len(sheet.rows) :
            /\ RowHasKey(sheet, r, key)
            /\ sheet.rows[r][CodeColumn(sheet)] # NaN
            /\ TrimmedCode(sheet, r) # <<>>}
    ELSE {}

\* the same for the bare service id
CodeRows(sheet, id) == KeyCodeRows(sheet, S_service_ \o id)

FirstRowOf(sheet, id, c) ==
    CHOOSE r \in CodeRows(sheet, id) :
        /\ TrimmedCode(sheet, r) = c
        /\ \A q \in CodeRows(sheet, id) : TrimmedCode(sheet, q) = c => r <= q

\* C3: the sequence find_service_codes returns holds no value twice, and its
\* order is the order of first occurrence of each trimmed non-empty code
\* among the matching rows, top to bottom.
C3_StableDedup ==
    pc = "found" =>
        LET r == found.value IN
        /\ \A i, j \in 1..Len(r) : i < j => r[i] # r[j]
        /\ Range(r) = {TrimmedCode(fsheet, q) : q \in CodeRows(fsheet, fid)}
        /\ \A i, j \in 1..Len(r) :
              i < j => FirstRowOf(fsheet, fid, r[i]) < FirstRowOf(fsheet, fid, r[j])

\* three matching rows with codes, the first code met again in a later row:
\* two values come back, the larger one first
C3_Witness ==
    /\ pc = "found"
    /\ Cardinality(CodeRows(fsheet, fid)) = 3
    /\ found.value = << <<"8">>, <<"7">> >>

\* ways of writing the service id: bare or prefixed, the prefix in any
\* letter case, with whitespace around
Forms(id) == {
    id,
    <<" ">> \o id \o <<"\t">>,
    S_service_ \o id,
    Upper(S_service_) \o id,
    <<"\t", "S","e","r","v","i","c","e","_">> \o id \o <<" ", " ">>,
    <<" ", "s","E","R","v","i","C","e","_">> \o id }

\* C4: find_service_codes(sheet, "<id>") returns what
\* find_service_codes(sheet, "service_<id>") returns in any letter case and
\* with any surrounding whitespace, and only rows whose trimmed, lower-cased
\* identifier cell equals "service_<id>" in full are selected.
C4_CanonicalExact ==
    pc = "found" =>
        /\ \A f \in Forms(fid) : find_service_codes(fsheet, f) = found
        /\ \A c \in Range(found.value) :
              \E r \in CodeRows(fsheet, fid) : TrimmedCode(fsheet, r) = c

\* a row written " Service_1" or "SERVICE_1<tab>" was selected for id 1,
\* while rows whose cell extends the key or is a part of it were not
C4_Witness ==
    /\ pc = "found"
    /\ fid = <<"1">>
    /\ found.value # <<>>
    /\ IdColumn(fsheet) # 0
    /\ \E r \in CodeRows(fsheet, fid) :
          fsheet.rows[r][IdColumn(fsheet)] # S_service_ \o fid
    /\ \E r \in 1..Len(fsheet.rows) :
          /\ ~RowHasKey(fsheet, r, S_service_ \o fid)
          /\ \/ Contains(Str(fsheet.rows[r][IdColumn(fsheet)]), S_service_ \o fid)
             \/ StartsWith(S_service_ \o fid, Str(fsheet.rows[r][IdColumn(fsheet)]))

----------------------------------------------------------------------------
(* Claims on generate_service_files. *)

SummaryWrites == SelectSeq(writes, LAMBDA w : w.kind = "summary")

\* the sheets of the summary_table rows of a service that have a count
MatchedSheets(sid) ==
    LET rows == SelectSeq(summary_table, LAMBDA row : row.sid = sid /\ row.count > 0)
    IN  [k \in 1..Len(rows) |-> rows[k].sheet]

TableSidSet == {summary_table[k].sid : k \in 1..Len(summary_table)}

\* C5: generate_service_files writes a summary document for a service if and
\* only if some summary_table row of that service has count > 0 (and then
\* writes one); a service with count 0 on every sheet gets no document.
C5_DocumentIffMatched ==
    pc = "summarised" =>
        /\ \A sid \in TableSidSet :
              Len(SelectSeq(SummaryWrites, LAMBDA w : w.sid = sid))
                 = (IF MatchedSheets(sid) # <<>> THEN 1 ELSE 0)
        /\ \A k \in 1..Len(SummaryWrites) : SummaryWrites[k].sid \in TableSidSet

\* of two services on two sheets or more, one matched and got its document,
\* the other had count 0 everywhere and got none
C5_Witness ==
    /\ pc = "summarised"
    /\ Len(summary_table) >= 4
    /\ Len(SummaryWrites) = 1
    /\ SummaryWrites[1].sid = <<"2">>
    /\ MatchedSheets(<<"1">>) = <<>>
    /\ Len(MatchedSheets(<<"2">>)) >= 2

IsSectionHeader(chunk) == chunk # <<>> /\ chunk[Len(chunk)] = T_script_nl
IsSeparator(chunk) == chunk = <<T_separator>>

\* the indices of the section headers of a document, ascending
HeaderIndices(content) ==
    SelectSeq([k \in 1..Len(content) |-> k], LAMBDA k : IsSectionHeader(content[k]))

\* the indices of the separator blocks of a document, ascending
SeparatorIndices(content) ==
    SelectSeq([k \in 1..Len(content) |-> k], LAMBDA k : IsSeparator(content[k]))

\* C6: in the summary document of a service matched on n >= 1 sheets the
\* sheet sections stand in sheet-list order, n - 1 separator blocks are
\* written, one between every two consecutive sections, and none follows the
\* last section.
C6_SectionsAndSeparators ==
    pc = "summarised" =>
        \A d \in 1..Len(SummaryWrites) :
            LET content == SummaryWrites[d].content
                sheets == MatchedSheets(SummaryWrites[d].sid)
                n == Len(sheets)
                hdr == HeaderIndices(content)
                sep == SeparatorIndices(content)
            IN
            /\ n >= 1
            /\ Len(hdr) = n
            /\ \A k \in 1..n :
                  content[hdr[k]] = safe_sheet(sheets[k]) \o <<T_script_nl>>
            /\ Len(sep) = n - 1
            /\ \A k \in 1..(n - 1) : hdr[k] < sep[k] /\ sep[k] < hdr[k + 1]
            /\ ~IsSeparator(content[Len(content)])

\* a document of three sections, two separators, the last section with a
\* body and nothing after it
C6_Witness ==
    /\ pc = "summarised"
    /\ \E d \in 1..Len(SummaryWrites) :
          LET content == SummaryWrites[d].content IN
          /\ Len(MatchedSheets(SummaryWrites[d].sid)) = 3
          /\ Len(SeparatorIndices(content)) = 2
          /\ ~IsSectionHeader(content[Len(content)])

----------------------------------------------------------------------------
(* Claims on main. *)

ScriptWrites == SelectSeq(writes, LAMBDA w : w.kind = "script")
TableRows == {summary_table[k] : k \in 1..Len(summary_table)}
AllWrites == {writes[k] : k \in 1..Len(writes)}

\* C7: after a full confirmed run a per-sheet file has been written for a
\* (sheet, service) pair only if the pair's previewed count is > 0, and a
\* service id with zero rows on every selected sheet has neither a per-sheet
\* file nor a summary document.
C7_OnlyMatchedPairsWritten ==
    pc = "finished" =>
        /\ \A k \in 1..Len(ScriptWrites) :
              \E row \in TableRows :
                 /\ row.sheet = ScriptWrites[k].sheet
                 /\ row.sid = ScriptWrites[k].sid
                 /\ row.count > 0
        /\ \A j \in 1..Len(service_usernames) :
              LET sid == service_usernames[j][1] IN
              (\A row \in TableRows : row.sid = sid => row.count = 0)
                 => \A w \in AllWrites : w.sid # sid

\* a confirmed run over a sheet on which one service matched and got its
\* files while the other service, matching nothing, got none
C7_Witness ==
    /\ pc = "finished"
    /\ Len(ScriptWrites) >= 1
    /\ Len(SummaryWrites) >= 1
    /\ \E j \in 1..Len(service_usernames) :
          LET sid == service_usernames[j][1] IN
          /\ \E row \in TableRows : row.sid = sid
          /\ \A row \in TableRows : row.sid = sid => row.count = 0
          /\ \A w \in AllWrites : w.sid # sid

\* C8: no output file is written before the counts of all selected pairs
\* have been computed and displayed and the confirmation prompt has been
\* answered 'y'; with any other answer the run ends with no file written.
C8_ConfirmationGate ==
    /\ writes # <<>> =>
          /\ Len(summary_table) = ScanPairs
          /\ \A k \in 1..ScanPairs :
                /\ summary_table[k].sheet = ScanSheet(k)
                /\ summary_table[k].sid = ScanItem(k)[1]
          /\ displayed = Len(summary_table)
          /\ "confirm" \in prompts
          /\ confirm = <<"y">>
    /\ ("confirm" \in prompts /\ confirm # <<"y">>) =>
          /\ pc = "returned"
          /\ writes = <<>>

\* the first file has just been written, after a scan of two pairs or more
\* and the answer 'y'
C8_Witness ==
    /\ pc = "generate"
    /\ Len(writes) = 1
    /\ Len(summary_table) >= 2
    /\ confirm = <<"y">>

\* the four recoverable conditions of find_service_codes
Recoverable(sheet, sid) ==
    \/ ~sheet.readable
    \/ IdColumn(sheet) = 0
    \/ CodeColumn(sheet) = 0
    \/ \A r \in 1..Len(sheet.rows) :
          ~RowHasKey(sheet, r, Lower(normalize_service(sid)))

\* the count of a pair taken alone: its distinct trimmed non-empty codes
CountAlone(sheet, sid) ==
    LET key == Lower(normalize_service(sid)) IN
    Cardinality({TrimmedCode(sheet, r) : r \in KeyCodeRows(sheet, key)})

\* C9: every recoverable condition in find_service_codes yields an empty
\* sequence and no exception, and the scan goes on over the remaining pairs
\* with the counts they have when taken alone.
C9_RecoverableConditions ==
    /\ pc = "crashed" => ~env.openable
    /\ \A k \in 1..Len(summary_table) :
          LET row == summary_table[k] IN
          /\ row.sheet = ScanSheet(k)
          /\ row.sid = ScanItem(k)[1]
          /\ Recoverable(SheetNamed(row.sheet), row.sid) => row.count = 0
          /\ row.count = CountAlone(SheetNamed(row.sheet), row.sid)
    /\ pc \in {"confirm", "generate", "finished"} => Len(summary_table) = ScanPairs

\* the scan met an unreadable sheet, or one with a column missing, and then
\* found codes on a later sheet
C9_Witness ==
    /\ pc = "confirm"
    /\ \E j, k \in 1..Len(summary_table) :
          /\ j < k
          /\ LET sheet == SheetNamed(summary_table[j].sheet) IN
             ~sheet.readable \/ IdColumn(sheet) = 0 \/ CodeColumn(sheet) = 0
          /\ summary_table[j].count = 0
          /\ summary_table[k].count > 0

\* C10: if the workbook cannot be opened (the file is missing or
\* ExcelHandler's construction fails) the run is aborted: no sheet is
\* queried, no prompt for sheets or service ids is issued, no file is
\* written.
C10_AbortWhenUnopenable ==
    (~env.exists \/ ~env.openable) =>
        /\ pc \in {"start", "open", "returned", "crashed"}
        /\ queried = <<>>
        /\ prompts \subseteq {"path"}
        /\ writes = <<>>

\* ExcelHandler's construction failed on a workbook that holds sheets, and
\* the exception ended the run
C10_Witness ==
    /\ pc = "crashed"
    /\ env.exists
    /\ ~env.openable
    /\ env.workbook # <<>>

\* the canonical ServiceKey of an entered service id: service_<id>, compared
\* case-insensitively
ServiceKey(sid) == Lower(normalize_service(sid))

\* the ServiceKeys of the entered ids that matched on some selected sheet
MatchedKeys ==
    {ServiceKey(summary_table[k].sid) :
        k \in {j \in 1..Len(summary_table) : summary_table[j].count > 0}}

\* C11: after a confirmed run every ServiceKey with a matched sheet has
\* exactly one summary file, and the summary files of two different
\* ServiceKeys never bear the same name.
C11_OneSummaryPerServiceKey ==
    pc = "finished" =>
        /\ \A key \in MatchedKeys :
              Len(SelectSeq(SummaryWrites, LAMBDA w : ServiceKey(w.sid) = key)) = 1
        /\ \A i, j \in 1..Len(SummaryWrites) :
              ServiceKey(SummaryWrites[i].sid) # ServiceKey(SummaryWrites[j].sid)
                 => SummaryWrites[i].name # SummaryWrites[j].name

\* service_dict as generate_service_files builds it from summary_table
ServiceSheets == group_sheets(summary_table, <<>>)

\* C13: for every service the sheet list of generate_service_files is in the
\* order the sheets were queried and holds each sheet name at most once, so
\* the summary document has no sheet section twice, whatever selection
\* parse_indices accepted.
C13_SheetListOrderedOnce ==
    pc = "finished" =>
        \A d \in 1..Len(ServiceSheets) :
            LET sheets == ServiceSheets[d][2] IN
            /\ sheets = MatchedSheets(ServiceSheets[d][1])
            /\ \A i, j \in 1..Len(sheets) : i # j => sheets[i] # sheets[j]
            /\ Len(HeaderIndices(SummaryWrites[d].content))
                  = Cardinality({sheets[i] : i \in 1..Len(sheets)})

\* the text written after the section header at index h of a document, up
\* to the separator, the next header or the end
SectionBody(content, h) ==
    IF h < Len(content) /\ ~IsSeparator(content[h + 1])
                        /\ ~IsSectionHeader(content[h + 1])
    THEN content[h + 1]
    ELSE <<>>

\* C14: when main has aggregated, every (sheet, service) pair of a service's
\* sheet list has an entry in script_contents, and the body of the pair's
\* section of the summary document is the text of ActionLines written to
\* the pair's per-sheet file.
C14_SectionsRepeatScripts ==
    pc = "finished" =>
        /\ Len(SummaryWrites) = Len(ServiceSheets)
        /\ \A d \in 1..Len(ServiceSheets) :
              LET sid == ServiceSheets[d][1]
                  sheets == ServiceSheets[d][2]
                  content == SummaryWrites[d].content
                  hdr == HeaderIndices(content)
              IN
              /\ SummaryWrites[d].sid = sid
              /\ Len(hdr) = Len(sheets)
              /\ \A i \in 1..Len(sheets) :
                    /\ DictHas(script_contents, <<sheets[i], sid>>)
                    /\ \E k \in 1..Len(ScriptWrites) :
                          /\ ScriptWrites[k].sheet = sheets[i]
                          /\ ScriptWrites[k].sid = sid
                    /\ \A k \in 1..Len(ScriptWrites) :
                          (ScriptWrites[k].sheet = sheets[i] /\ ScriptWrites[k].sid = sid)
                             => SectionBody(content, hdr[i]) = ScriptWrites[k].content[1]

\* a document of two sections whose sheet name holds a space in one of them,
\* one section repeating the lines of its per-sheet file and the other empty
\* as its per-sheet file is
C14_Witness ==
    /\ pc = "finished"
    /\ \E d \in 1..Len(SummaryWrites) :
          LET content == SummaryWrites[d].content
              hdr == HeaderIndices(content)
          IN
          /\ Len(hdr) = 2
          /\ \E i \in 1..2 : " " \in Range(ServiceSheets[d][2][i])
          /\ \E i \in 1..2 : SectionBody(content, hdr[i]) # <<>>
          /\ \E i \in 1..2 : SectionBody(content, hdr[i]) = <<>>

\* the number of ActionLines of a written per-sheet file
LineCount(w) ==
    Cardinality({i \in 1..Len(w.content[1]) : w.content[1][i] = "\n"})

\* the sum of the counts of the rows of a summary table
RECURSIVE SumCounts(_)
SumCounts(table) ==
    IF table = <<>> THEN 0 ELSE Head(table).count + SumCounts(Tail(table))

\* C15: the number of ActionLines written to the per-sheet file of a pair is
\* the count previewed for the pair, so every per-sheet file written holds
\* an ActionLine or more, and the total of processed records reported is the
\* sum of the previewed counts.
C15_LinesEqualPreviewCount ==
    /\ \A k \in 1..Len(ScriptWrites) :
          /\ LineCount(ScriptWrites[k]) >= 1
          /\ \A row \in TableRows :
                (row.sheet = ScriptWrites[k].sheet /\ row.sid = ScriptWrites[k].sid)
                   => LineCount(ScriptWrites[k]) = row.count
    /\ pc = "finished" => total_processed = SumCounts(summary_table)

====
